---- MODULE Spec2Model ----
(***************************************************************************)
(* Model of the record validator and updater of src/index.ts               *)
(* (validateRecord, updateRecordWithValidation, deepCopy).                 *)
(*                                                                         *)
(* JavaScript values are tagged records whose field t is the result of     *)
(* typeof.  Objects, arrays and Date instances live in a heap (a sequence  *)
(* of cells addressed by position), so that aliasing and in-place writes   *)
(* are visible.  Finite numbers are integers counting ten-thousandths      *)
(* (1234567 is 123.4567); 0 and -0 are one value, as they are for ===.     *)
(* Strings are sequences of one-character strings.                         *)
(***************************************************************************)
EXTENDS Integers, Sequences, FiniteSets, TLC

VARIABLES heap, cur, last, now, calls, snap, streak

vars == <<heap, cur, last, now, calls, snap, streak>>

\* ------------------------------------------------------------------ bounds
MaxCalls == 2

MaxNow == 2

\* ------------------------------------------------------------------ values
Undef == [t |-> "undefined"]

Null == [t |-> "object", isnull |-> TRUE]

Bool(b) == [t |-> "boolean", b |-> b]

Str(s) == [t |-> "string", s |-> s]

Num(n) == [t |-> "number", n |-> n]

NaN == [t |-> "number", nan |-> TRUE]

Inf(sg) == [t |-> "number", inf |-> sg]

Ref(a) == [t |-> "object", a |-> a]

typeOf(v) == v.t

IsRef(v) == v.t = "object" /\ "a" \in DOMAIN v

\* isNaN applied to a value whose typeof is "number"
isNaN(v) == "nan" \in DOMAIN v

\* the === operator: identity for references, value equality for
\* primitives, NaN equal to nothing
StrictEq(x, y) == x = y /\ x # NaN

\* ------------------------------------------------------------------ heap cells
ObjCell(f) == [k |-> "obj", f |-> f]

ArrCell(e) == [k |-> "arr", e |-> e]

DateCell(ms) == [k |-> "date", ms |-> ms]

Alloc(h, cell) == [h |-> Append(h, cell), v |-> Ref(Len(h) + 1)]

isArray(h, v) == IsRef(v) /\ h[v.a].k = "arr"

\* property read record[key]: undefined when the key is absent
Get(h, v, key) ==
  IF IsRef(v) /\ h[v.a].k = "obj" /\ key \in DOMAIN h[v.a].f
  THEN h[v.a].f[key]
  ELSE Undef

\* property write record[key] = x on a plain object
Put(h, v, key, x) ==
  LET f == h[v.a].f
      g == [kk \in (DOMAIN f) \cup {key} |-> IF kk = key THEN x ELSE f[kk]]
  IN [h EXCEPT ![v.a] = ObjCell(g)]

\* ------------------------------------------------------------------ strings
WhiteSpace == {" "}

AlnumChars == {"a", "b", "1"}

RECURSIVE trimStart(_)
trimStart(s) ==
  IF s # <<>> /\ Head(s) \in WhiteSpace THEN trimStart(Tail(s)) ELSE s

RECURSIVE trimEnd(_)
trimEnd(s) ==
  IF s # <<>> /\ s[Len(s)] \in WhiteSpace
  THEN trimEnd(SubSeq(s, 1, Len(s) - 1))
  ELSE s

trim(s) == trimEnd(trimStart(s))

\* /^[a-zA-Z0-9]+$/.test(s)
AlnumTest(s) == Len(s) > 0 /\ \A i \in 1..Len(s) : s[i] \in AlnumChars

\* ------------------------------------------------------------------ numbers
Abs(n) == IF n < 0 THEN -n ELSE n

\* Number.prototype.toFixed(2): the decimal string with two fraction
\* digits, represented by its signed count of hundredths; of the two
\* nearest counts the larger in magnitude is taken on a tie.
toFixed2(v) ==
  IF isNaN(v) THEN [txt |-> "NaN"]
  ELSE IF "inf" \in DOMAIN v THEN [txt |-> "Infinity", sg |-> v.inf]
  ELSE LET m == Abs(v.n)
           c == (m + 50) \div 100
       IN [txt |-> "dec", c |-> IF v.n < 0 THEN -c ELSE c]

\* parseFloat of a string produced by toFixed
parseFloat(d) ==
  IF d.txt = "NaN" THEN NaN
  ELSE IF d.txt = "Infinity" THEN Inf(d.sg)
  ELSE Num(d.c * 100)

\* ------------------------------------------------------------------ validateRecord
ErrObject == "Record must be an object."

ErrId == "ID is required and must be a string."

ErrName == "Name is required and must be a non-empty string."

ErrPrice == "Price is required and must be a number."

ErrTagsArray == "Tags are required and must be an array."

ErrTagsAlnum == "All tags must be alphanumeric strings."

idFails(h, r) ==
  LET x == Get(h, r, "id") IN typeOf(x) # "string" \/ Len(trim(x.s)) = 0

nameFails(h, r) ==
  LET x == Get(h, r, "name") IN typeOf(x) # "string" \/ Len(trim(x.s)) = 0

priceFails(h, r) ==
  LET x == Get(h, r, "price") IN typeOf(x) # "number" \/ isNaN(x)

tagFails(tag) == typeOf(tag) # "string" \/ ~AlnumTest(tag.s)

\* the tags branch with one message for each failing tag
tagsErrorsPerTag(h, r) ==
  LET x == Get(h, r, "tags") IN
  IF ~isArray(h, x) THEN <<ErrTagsArray>>
  ELSE [i \in 1..Cardinality({j \in 1..Len(h[x.a].e) : tagFails(h[x.a].e[j])})
          |-> ErrTagsAlnum]

tagsErrors(h, r) ==
  LET x == Get(h, r, "tags") IN
  IF ~isArray(h, x) THEN <<ErrTagsArray>>
  ELSE IF \E i \in 1..Len(h[x.a].e) : tagFails(h[x.a].e[i])
       THEN <<ErrTagsAlnum>>
       ELSE <<>>

\* the price branch without the assignment
roundPriceSkip(h, r) == h

\* the price branch storing the text toFixed gives, parseFloat forgotten
roundPriceText(h, r) ==
  IF priceFails(h, r) THEN h ELSE Put(h, r, "price", Str(<<"1">>))

\* the price branch run only when no check has failed
roundPriceIfValid(h, r) ==
  IF idFails(h, r) \/ nameFails(h, r) \/ priceFails(h, r) \/ tagsErrors(h, r) # <<>>
  THEN h
  ELSE Put(h, r, "price", parseFloat(toFixed2(Get(h, r, "price"))))

\* the price branch: the rounded price is written into the record itself
roundPrice(h, r) ==
  IF priceFails(h, r) THEN h
  ELSE Put(h, r, "price", parseFloat(toFixed2(Get(h, r, "price"))))

\* the type test with the null case forgotten
notAnObjectNullForgotten(r) == typeOf(r) # "object"

\* typeof record !== 'object' || record === null
notAnObject(r) == typeOf(r) # "object" \/ r = Null

\* the four field checks, in the order in which they push their message
fieldErrors(h, r) ==
  (IF idFails(h, r) THEN <<ErrId>> ELSE <<>>)
  \o (IF nameFails(h, r) THEN <<ErrName>> ELSE <<>>)
  \o (IF priceFails(h, r) THEN <<ErrPrice>> ELSE <<>>)
  \o tagsErrors(h, r)

validateRecord(h, r) ==
  IF notAnObject(r)
  THEN [h |-> h, res |-> [isValid |-> FALSE, errors |-> <<ErrObject>>]]
  ELSE
    LET errors == fieldErrors(h, r)
        h2 == roundPrice(h, r)
    IN IF Len(errors) > 0
       THEN [h |-> h2, res |-> [isValid |-> FALSE, errors |-> errors]]
       ELSE [h |-> h2, res |-> [isValid |-> TRUE, record |-> r]]

\* ------------------------------------------------------------------ deepCopy
RECURSIVE deepCopy(_, _), copyItems(_, _, _), copyFields(_, _, _)

\* deepCopy returning its argument
deepCopyAlias(h, obj) == [h |-> h, v |-> obj]

\* deepCopy without the Date case: a Date has no own enumerable keys
deepCopyNoDate(h, obj) ==
  IF ~IsRef(obj) THEN [h |-> h, v |-> obj]
  ELSE LET c == h[obj.a] IN
       IF c.k = "date" THEN Alloc(h, ObjCell([kk \in {} |-> Undef]))
       ELSE IF c.k = "arr"
            THEN LET r == copyItems(h, c.e, 1) IN Alloc(r.h, ArrCell(r.v))
            ELSE LET r == copyFields(h, c.f, DOMAIN c.f)
                 IN Alloc(r.h, ObjCell([kk \in DOMAIN c.f |-> r.v[kk]]))

\* returns the heap after the copy and the copied value
deepCopy(h, obj) ==
  IF ~IsRef(obj) THEN [h |-> h, v |-> obj]
  ELSE LET c == h[obj.a] IN
       IF c.k = "date" THEN Alloc(h, DateCell(c.ms))
       ELSE IF c.k = "arr"
            THEN LET r == copyItems(h, c.e, 1) IN Alloc(r.h, ArrCell(r.v))
            ELSE LET r == copyFields(h, c.f, DOMAIN c.f)
                 IN Alloc(r.h, ObjCell([kk \in DOMAIN c.f |-> r.v[kk]]))

\* obj.map(item => deepCopy(item)) from index i on
copyItems(h, e, i) ==
  IF i > Len(e) THEN [h |-> h, v |-> <<>>]
  ELSE LET x == deepCopy(h, e[i])
           rest == copyItems(x.h, e, i + 1)
       IN [h |-> rest.h, v |-> <<x.v>> \o rest.v]

\* the for..in loop over the own keys still to be copied
copyFields(h, f, keys) ==
  IF keys = {} THEN [h |-> h, v |-> [kk \in {} |-> Undef]]
  ELSE LET key == CHOOSE kk \in keys : TRUE
           x == deepCopy(h, f[key])
           rest == copyFields(x.h, f, keys \ {key})
       IN [h |-> rest.h,
           v |-> [kk \in {key} \cup DOMAIN rest.v |->
                    IF kk = key THEN x.v ELSE rest.v[kk]]]

\* ------------------------------------------------------------------ sort, JSON
\* UTF-16 code units of the characters used
Code(c) ==
  CASE c = " " -> 32
    [] c = "!" -> 33
    [] c = "1" -> 49
    [] c = "a" -> 97
    [] c = "b" -> 98

RECURSIVE StrLess(_, _)
StrLess(s1, s2) ==
  IF s2 = <<>> THEN FALSE
  ELSE IF s1 = <<>> THEN TRUE
  ELSE IF Head(s1) # Head(s2) THEN Code(Head(s1)) < Code(Head(s2))
  ELSE StrLess(Tail(s1), Tail(s2))

RECURSIVE insertSorted(_, _)
insertSorted(x, e) ==
  IF e = <<>> THEN <<x>>
  ELSE IF StrLess(x.s, Head(e).s) THEN <<x>> \o e
  ELSE <<Head(e)>> \o insertSorted(x, Tail(e))

\* [...arr].sort() on an array of strings: ascending code-unit order
RECURSIVE sort(_)
sort(e) ==
  IF e = <<>> THEN <<>>
  ELSE insertSorted(e[Len(e)], sort(SubSeq(e, 1, Len(e) - 1)))

RECURSIVE joinQuoted(_)
joinQuoted(e) ==
  IF e = <<>> THEN <<>>
  ELSE <<"\"">> \o Head(e).s \o <<"\"">>
       \o (IF Len(e) > 1 THEN <<",">> ELSE <<>>) \o joinQuoted(Tail(e))

\* JSON.stringify of an array of strings, as its sequence of characters
JSONstringify(e) == <<"[">> \o joinQuoted(e) \o <<"]">>

\* ------------------------------------------------------------------ updateRecordWithValidation
\* the price comparison inverted
priceDiffersInverted(newValue, oldValue) ==
  StrictEq(parseFloat(toFixed2(newValue)), parseFloat(toFixed2(oldValue)))

priceDiffers(newValue, oldValue) ==
  ~StrictEq(parseFloat(toFixed2(newValue)), parseFloat(toFixed2(oldValue)))

\* the tags comparison without sorting
tagsDifferUnsorted(h, newValue, oldValue) ==
  JSONstringify(h[newValue.a].e) # JSONstringify(h[oldValue.a].e)

tagsDiffer(h, newValue, oldValue) ==
  JSONstringify(sort(h[newValue.a].e)) # JSONstringify(sort(h[oldValue.a].e))

\* the body of the loop over the keys of updates, for one key
mergeKey(h, rec, updates, key) ==
  LET newValue == Get(h, updates, key)
      oldValue == Get(h, rec, key)
  IN IF key = "price" /\ typeOf(newValue) = "number" /\ typeOf(oldValue) = "number"
     THEN IF priceDiffers(newValue, oldValue) THEN Put(h, rec, key, newValue) ELSE h
     ELSE IF key = "tags" /\ isArray(h, newValue) /\ isArray(h, oldValue)
     THEN IF tagsDiffer(h, newValue, oldValue) THEN Put(h, rec, key, newValue) ELSE h
     ELSE IF ~StrictEq(newValue, oldValue) THEN Put(h, rec, key, newValue) ELSE h

RECURSIVE mergeAll(_, _, _, _)
mergeAll(h, rec, updates, keys) ==
  IF keys = {} THEN h
  ELSE LET key == CHOOSE kk \in keys : TRUE
       IN mergeAll(mergeKey(h, rec, updates, key), rec, updates, keys \ {key})

\* own enumerable keys of updates
ownKeys(h, updates) ==
  IF IsRef(updates) /\ h[updates.a].k = "obj" THEN DOMAIN h[updates.a].f ELSE {}

\* the updater validating currentRecord in place of the merged copy
updateValidatingOriginal(h, currentRecord, updates, t) ==
  LET c == deepCopy(h, currentRecord) IN
  IF ~IsRef(c.v)
  THEN [h |-> c.h, res |-> [threw |-> "TypeError"]]
  ELSE
    LET d == Alloc(c.h, DateCell(t))
        h1 == Put(d.h, c.v, "updatedAt", d.v)
        h2 == mergeAll(h1, c.v, updates, ownKeys(h1, updates))
        vr == validateRecord(h2, currentRecord)
    IN IF ~vr.res.isValid
       THEN [h |-> vr.h, res |-> [isValid |-> FALSE, errors |-> vr.res.errors]]
       ELSE [h |-> vr.h, res |-> [isValid |-> TRUE, record |-> c.v]]

\* t is the value Date.now() returns during the call
updateRecordWithValidation(h, currentRecord, updates, t) ==
  LET c == deepCopy(h, currentRecord) IN
  IF ~IsRef(c.v)
  THEN [h |-> c.h, res |-> [threw |-> "TypeError"]]
  ELSE
    LET d == Alloc(c.h, DateCell(t))
        h1 == Put(d.h, c.v, "updatedAt", d.v)
        h2 == mergeAll(h1, c.v, updates, ownKeys(h1, updates))
        vr == validateRecord(h2, c.v)
    IN IF ~vr.res.isValid
       THEN [h |-> vr.h, res |-> [isValid |-> FALSE, errors |-> vr.res.errors]]
       ELSE [h |-> vr.h, res |-> [isValid |-> TRUE, record |-> vr.res.record]]

\* ------------------------------------------------------------------ the caller
\* The structure a value denotes, without addresses: what deep equality
\* (assert.deepStrictEqual in the tests) compares.
RECURSIVE DeepVal(_, _)
DeepVal(h, v) ==
  IF ~IsRef(v) THEN v
  ELSE LET c == h[v.a] IN
       IF c.k = "date" THEN c
       ELSE IF c.k = "arr"
            THEN [k |-> "arr", e |-> [i \in 1..Len(c.e) |-> DeepVal(h, c.e[i])]]
            ELSE [k |-> "obj", f |-> [kk \in DOMAIN c.f |-> DeepVal(h, c.f[kk])]]

\* Object literals written by the caller.  A field of a literal is a
\* primitive value, a nested literal (array, Date, plain object of
\* primitives) or an alias of a property of an existing record.
LitArr(e) == [lit |-> "arr", e |-> e]

LitDate(ms) == [lit |-> "date", ms |-> ms]

LitObj(f) == [lit |-> "obj", f |-> f]

AliasOf(key) == [alias |-> key]

LitCell(x) ==
  IF x.lit = "arr" THEN ArrCell(x.e)
  ELSE IF x.lit = "date" THEN DateCell(x.ms)
  ELSE ObjCell(x.f)

RECURSIVE newFields(_, _, _, _)
newFields(h, tf, keys, base) ==
  IF keys = {} THEN [h |-> h, v |-> [kk \in {} |-> Undef]]
  ELSE LET key == CHOOSE kk \in keys : TRUE
           x == tf[key]
           a == IF "lit" \in DOMAIN x THEN Alloc(h, LitCell(x))
                ELSE IF "alias" \in DOMAIN x
                     THEN [h |-> h, v |-> Get(h, base, x.alias)]
                     ELSE [h |-> h, v |-> x]
           rest == newFields(a.h, tf, keys \ {key}, base)
       IN [h |-> rest.h,
           v |-> [kk \in {key} \cup DOMAIN rest.v |->
                    IF kk = key THEN a.v ELSE rest.v[kk]]]

newObject(h, tf, base) ==
  LET r == newFields(h, tf, DOMAIN tf, base)
  IN Alloc(r.h, ObjCell([kk \in DOMAIN tf |-> r.v[kk]]))

\* literal with the fields of tf whose value is not Absent
Absent == [absent |-> TRUE]

Present(tf) == [kk \in {x \in DOMAIN tf : tf[x] # Absent} |-> tf[kk]]

A == Str(<<"a">>)

B == Str(<<"b">>)

One == Str(<<"1">>)

Blank == Str(<<" ">>)

Bad == Str(<<"a", "!">>)

\* records the updater is run on
BasePrices == {Num(500000), Num(500040), Num(1250), Num(-1250), Inf(1)}

BaseTags == {<<A, B>>, <<A, A, B>>, <<A, Bad>>}

BaseRecord(p, tg) ==
  [id |-> A, name |-> Str(<<"a", " ", "b">>), price |-> p, tags |-> LitArr(tg),
   createdAt |-> LitDate(0), updatedAt |-> LitDate(0),
   details |-> LitObj([color |-> B])]

BaseRecords == {BaseRecord(p, tg) : p \in BasePrices, tg \in BaseTags}

\* change sets passed to the updater
ChangeSets ==
  {Present([name |-> Absent])}
  \cup {[name |-> x] : x \in {B, Blank}}
  \cup {[price |-> x] :
          x \in {Num(500040), Num(499960), Num(1234567), Num(1200), NaN, Inf(1), One}}
  \cup {[tags |-> x] : x \in {LitArr(<<B, A>>), LitArr(<<A, B, A>>),
                               LitArr(<<B, One>>), LitArr(<<A, Bad>>), A}}
  \cup {[id |-> B], [createdAt |-> LitDate(1)], [updatedAt |-> LitDate(0)],
        [details |-> AliasOf("details")], [description |-> A]}
  \cup {[name |-> Blank, tags |-> LitArr(<<A, Bad>>)],
        [price |-> Num(1234567), tags |-> LitArr(<<B, A>>)],
        [id |-> Blank, name |-> Blank, price |-> NaN, tags |-> A]}

\* the records and change sets of the runs with several calls in a row
ChainRecords ==
  {BaseRecord(Num(500040), <<A, A, B>>), BaseRecord(Num(1250), <<A, B>>),
   BaseRecord(Num(500000), <<A, Bad>>)}

ChainChanges ==
  {Present([name |-> Absent]), [name |-> B], [name |-> Blank],
   [price |-> Num(1234567)], [price |-> Num(500040)], [tags |-> LitArr(<<B, A>>)],
   [id |-> B], [details |-> AliasOf("details")], [updatedAt |-> LitDate(0)]}

\* values the validator is run on directly
IdChoices == {A, Blank, Num(10000), Absent}

NameChoices == {Str(<<" ", "a">>), Str(<<>>), Absent}

PriceChoices ==
  {Num(1234567), Num(1250), Num(-1250), Num(500000), NaN, Inf(-1), One, Absent}

TagsChoices ==
  {LitArr(<<A, B>>), LitArr(<<>>), LitArr(<<A, Bad>>), LitArr(<<Bad, Blank>>),
   LitArr(<<Str(<<>>)>>), LitArr(<<A, Num(10000)>>), A, Null, Absent}

Candidates ==
  {Present([id |-> i, name |-> n, price |-> p, tags |-> tg]) :
     i \in IdChoices, n \in NameChoices, p \in PriceChoices, tg \in TagsChoices}

Primitives == {Null, Undef, Num(500000), NaN, A, Str(<<>>), Bool(TRUE), Bool(FALSE)}

NoCall == [op |-> "none"]

InitWith(h, v) ==
  /\ heap = h
  /\ cur = v
  /\ last = NoCall
  /\ now = 1
  /\ calls = 0
  /\ snap = DeepVal(h, v)
  /\ streak = 0

Init == \E tf \in ChainRecords :
          LET n == newObject(<<>>, tf, Null) IN InitWith(n.h, n.v)

InitU == \E tf \in BaseRecords :
           LET n == newObject(<<>>, tf, Null) IN InitWith(n.h, n.v)

InitV ==
  \/ \E tf \in Candidates :
       LET n == newObject(<<>>, tf, Null) IN InitWith(n.h, n.v)
  \/ \E p \in Primitives : InitWith(<<>>, p)
  \/ \E x \in {LitArr(<<A>>), LitDate(0)} :
       LET n == Alloc(<<>>, LitCell(x)) IN InitWith(n.h, n.v)

\* the caller builds the change set tf and calls updateRecordWithValidation
UpdateWith(tf) ==
  LET n == newObject(heap, tf, cur)
      r == updateRecordWithValidation(n.h, cur, n.v, now)
  IN /\ heap' = r.h
     /\ last' = [op |-> "update", base |-> cur, updates |-> n.v,
                 pre |-> DeepVal(heap, cur), chg |-> DeepVal(n.h, n.v),
                 t |-> now, res |-> r.res]
     /\ calls' = calls + 1
     /\ streak' = streak + 1
     /\ UNCHANGED <<cur, now, snap>>

\* one call in a run of several
Update ==
  /\ calls < MaxCalls
  /\ \E tf \in ChainChanges : UpdateWith(tf)

\* the updater applied once to a record and a change set
UpdateOnce ==
  /\ calls = 0
  /\ \E tf \in ChangeSets : UpdateWith(tf)

\* the caller calls validateRecord on the value it holds
Validate ==
  /\ calls < MaxCalls
  /\ LET r == validateRecord(heap, cur)
     IN /\ heap' = r.h
        /\ last' = [op |-> "validate", arg |-> cur, pre |-> DeepVal(heap, cur),
                    res |-> r.res]
        /\ snap' = DeepVal(r.h, cur)
  /\ calls' = calls + 1
  /\ streak' = 0
  /\ UNCHANGED <<cur, now>>

\* the caller continues with the record the last update returned
Adopt ==
  /\ last.op = "update"
  /\ "record" \in DOMAIN last.res
  /\ cur # last.res.record
  /\ cur' = last.res.record
  /\ snap' = DeepVal(heap, last.res.record)
  /\ streak' = 0
  /\ UNCHANGED <<heap, last, now, calls>>

\* the wall clock advances between calls
Tick ==
  /\ now < MaxNow
  /\ now' = now + 1
  /\ UNCHANGED <<heap, cur, last, calls, snap, streak>>

\* runs of calls: updates, direct validations, continuing with a result
Next == Update \/ Validate \/ Adopt \/ Tick

Spec == Init /\ [][Next]_vars

\* the updater as a function of a record, a change set and the clock
NextU == UpdateOnce \/ Tick

SpecU == InitU /\ [][NextU]_vars

\* either function called on any value, a record or not
InitX ==
  \/ InitU
  \/ \E p \in Primitives : InitWith(<<>>, p)

NextX == UpdateOnce \/ Validate \/ Tick

SpecX == InitX /\ [][NextX]_vars

\* the validator as a function of its argument; a second call re-validates
NextV == Validate

SpecV == InitV /\ [][NextV]_vars

\* ------------------------------------------------------------------ properties
\* What the properties say is written over the deep values the caller
\* can observe, without the operators of the model above.

IsUpdate == last.op = "update"

IsValidate == last.op = "validate"

Returned == "res" \in DOMAIN last /\ "record" \in DOMAIN last.res

Ret == DeepVal(heap, last.res.record)

Field(d, key) ==
  IF "k" \in DOMAIN d /\ d.k = "obj" /\ key \in DOMAIN d.f THEN d.f[key] ELSE Undef

IsArr(d) == "k" \in DOMAIN d /\ d.k = "arr"

\* r is x rounded to two decimals, halves away from zero
RoundedFrom(r, x) ==
  IF "n" \in DOMAIN x
  THEN /\ "n" \in DOMAIN r
       /\ r.n % 100 = 0
       /\ 2 * Abs(r.n - x.n) <= 100
       /\ (2 * Abs(r.n - x.n) = 100 => Abs(r.n) > Abs(x.n))
  ELSE r = x

BlankText(x) == x.t # "string" \/ \A i \in 1..Len(x.s) : x.s[i] = " "

NotANumber(x) == x.t # "number" \/ x = NaN

BadTag(x) ==
  x.t # "string" \/ x.s = <<>> \/ \E i \in 1..Len(x.s) : x.s[i] \notin {"a", "b", "1"}

\* the messages the specification prescribes for the record d
ExpectedErrors(d) ==
  (IF BlankText(Field(d, "id"))
   THEN <<"ID is required and must be a string.">> ELSE <<>>)
  \o (IF BlankText(Field(d, "name"))
      THEN <<"Name is required and must be a non-empty string.">> ELSE <<>>)
  \o (IF NotANumber(Field(d, "price"))
      THEN <<"Price is required and must be a number.">> ELSE <<>>)
  \o (IF ~IsArr(Field(d, "tags"))
      THEN <<"Tags are required and must be an array.">>
      ELSE IF \E i \in DOMAIN Field(d, "tags").e : BadTag(Field(d, "tags").e[i])
           THEN <<"All tags must be alphanumeric strings.">> ELSE <<>>)

\* the record d with every field of the change set c written over it
Override(d, c) ==
  [k |-> "obj",
   f |-> [kk \in DOMAIN d.f \cup DOMAIN c.f |->
            IF kk \in DOMAIN c.f THEN c.f[kk] ELSE d.f[kk]]]

\* C1: updateRecordWithValidation(base, changes) leaves base unchanged:
\* after a call, valid or invalid, base deep-equals its value before the
\* call, and the record the caller holds deep-equals what it was before
\* the update calls made on it in a row.
Thm_C1 ==
  /\ IsUpdate => DeepVal(heap, last.base) = last.pre
  /\ DeepVal(heap, cur) = snap

\* two updates in a row on the same base, the second returning a record
\* whose price is not the price of base
W_C1 ==
  /\ IsUpdate /\ streak = 2 /\ last.base = cur /\ Returned
  /\ Field(Ret, "price") # Field(last.pre, "price")

\* C2: the record a successful update returns has the id and the
\* createdAt of base, also when the change set has the keys id or createdAt.
CE_C2 ==
  (IsUpdate /\ Returned) =>
     /\ Field(Ret, "id") = Field(last.pre, "id")
     /\ Field(Ret, "createdAt") = Field(last.pre, "createdAt")

\* C3: a record returned as valid by validateRecord or by
\* updateRecordWithValidation has a price with two decimals, and the price
\* validateRecord returns is the input price rounded to two decimals.
Thm_C3 ==
  Returned =>
     /\ RoundedFrom(Field(Ret, "price"), Field(Ret, "price"))
     /\ IsValidate => RoundedFrom(Field(Ret, "price"), Field(last.pre, "price"))

\* validateRecord has returned a record whose price it changed, as the
\* second call of a chain
W_C3 ==
  /\ IsValidate /\ Returned /\ calls = 2
  /\ Field(Ret, "price") # Field(last.pre, "price")

\* C4: for an input that is not a non-null object validateRecord returns
\* exactly isValid false with the one error "Record must be an object."
Thm_C4 ==
  (IsValidate /\ ~IsRef(last.arg)) =>
     last.res = [isValid |-> FALSE, errors |-> <<"Record must be an object.">>]

\* validateRecord was called on null
W_C4 == IsValidate /\ last.arg = Null

\* C5: for an object validateRecord returns exactly the messages of the
\* failing checks in the order id, name, price, tags, with at most one
\* message for tags, and is valid if and only if no check fails.
Thm_C5 ==
  (IsValidate /\ IsRef(last.arg)) =>
     IF ExpectedErrors(last.pre) = <<>>
     THEN last.res = [isValid |-> TRUE, record |-> last.arg]
     ELSE last.res = [isValid |-> FALSE, errors |-> ExpectedErrors(last.pre)]

\* all four checks failed, the tags check on two bad tags
W_C5 ==
  /\ IsValidate /\ IsRef(last.arg)
  /\ Len(last.res.errors) = 4
  /\ IsArr(Field(last.pre, "tags"))
  /\ \A i \in DOMAIN Field(last.pre, "tags").e : BadTag(Field(last.pre, "tags").e[i])
  /\ Len(Field(last.pre, "tags").e) = 2

\* C6: when base with the changes applied fails validation the update
\* returns isValid false, no record, and exactly the errors of the
\* validator for base with the changes applied.
Thm_C6 ==
  (IsUpdate /\ ExpectedErrors(Override(last.pre, last.chg)) # <<>>) =>
     last.res = [isValid |-> FALSE,
                 errors |-> ExpectedErrors(Override(last.pre, last.chg))]

\* an update of a valid base failed with two messages
W_C6 ==
  /\ IsUpdate /\ ~Returned /\ ExpectedErrors(last.pre) = <<>>
  /\ Len(last.res.errors) = 2

\* C7 as stated: for a base that passes validation, an update with an
\* empty change set returns a record equal to base in every field except
\* updatedAt, which is the call-time timestamp.
CE_C7 ==
  (IsUpdate /\ DOMAIN last.chg.f = {} /\ ExpectedErrors(last.pre) = <<>>) =>
     /\ Returned
     /\ Ret = [last.pre EXCEPT !.f["updatedAt"] = DateCell(last.t)]

\* C7 amended: the returned record equals base in every field except
\* updatedAt, which is the call-time timestamp, and price, which is
\* base.price rounded to two decimals.
Thm_C7 ==
  (IsUpdate /\ DOMAIN last.chg.f = {} /\ ExpectedErrors(last.pre) = <<>>) =>
     /\ Returned
     /\ DOMAIN Ret.f = DOMAIN last.pre.f
     /\ \A kk \in DOMAIN Ret.f \ {"updatedAt", "price"} : Ret.f[kk] = last.pre.f[kk]
     /\ Ret.f["updatedAt"] = DateCell(last.t)
     /\ RoundedFrom(Ret.f["price"], last.pre.f["price"])

\* an empty change set applied, after the clock has advanced, to a valid
\* base whose price has more than two decimals
W_C7 ==
  /\ IsUpdate /\ DOMAIN last.chg.f = {} /\ Returned /\ last.t = 2
  /\ Field(last.pre, "price") = Num(500040)

\* C8: when changes.tags and base.tags are arrays with the same elements
\* with the same multiplicities, the returned tags are base's tags in
\* base's order; otherwise they are changes.tags in the order given.
Count(e, x) == Cardinality({i \in DOMAIN e : e[i] = x})

SameBag(e1, e2) ==
  \A x \in {e1[i] : i \in DOMAIN e1} \cup {e2[i] : i \in DOMAIN e2} :
     Count(e1, x) = Count(e2, x)

Thm_C8 ==
  (IsUpdate /\ Returned /\ IsArr(Field(last.chg, "tags"))
     /\ IsArr(Field(last.pre, "tags"))) =>
     IF SameBag(Field(last.chg, "tags").e, Field(last.pre, "tags").e)
     THEN Field(Ret, "tags") = Field(last.pre, "tags")
     ELSE Field(Ret, "tags") = Field(last.chg, "tags")

\* the change set gave the tags of base in another order and the record
\* returned has them in base's order
W_C8 ==
  /\ IsUpdate /\ Returned /\ IsArr(Field(last.chg, "tags"))
  /\ Field(last.chg, "tags") # Field(last.pre, "tags")
  /\ Field(Ret, "tags") = Field(last.pre, "tags")

\* C9: for a valid base and a numeric, non-NaN changes.price the returned
\* price is changes.price rounded to two decimals; when changes.price and
\* base.price round to the same value it is also base.price rounded.
Thm_C9 ==
  (IsUpdate /\ ExpectedErrors(last.pre) = <<>>
     /\ ExpectedErrors(Override(last.pre, last.chg)) = <<>>
     /\ ~NotANumber(Field(last.chg, "price"))) =>
     /\ Returned
     /\ RoundedFrom(Field(Ret, "price"), Field(last.chg, "price"))

\* changes.price differs from base.price by less than a cent and the
\* returned price is that of base
W_C9 ==
  /\ IsUpdate /\ Returned
  /\ Field(last.pre, "price") = Num(500000)
  /\ Field(last.chg, "price") = Num(500040)
  /\ Field(Ret, "price") = Num(500000)

\* C10: the record a successful update returns has updatedAt equal to
\* the timestamp read at call time, whatever the change set.
CE_C10 ==
  (IsUpdate /\ Returned) => Field(Ret, "updatedAt") = DateCell(last.t)

\* C11: validateRecord is idempotent on valid records: called again on
\* the record it returned, it returns valid again with the same record,
\* equal in every field to what the first call returned.
Thm_C11 ==
  [][(IsValidate /\ Returned /\ last.res.record = cur /\ calls' = calls + 1
        /\ last'.op = "validate")
     => /\ last'.res = last.res
        /\ DeepVal(heap', cur) = DeepVal(heap, cur)]_vars

\* the second of two calls in a row on a record has returned it as valid
W_C11 ==
  /\ IsValidate /\ Returned /\ calls = 2 /\ last.res.record = cur
  /\ Field(Ret, "price") = Num(1234600)

\* C12: a record whose price is NaN, +Infinity or -Infinity is never
\* returned as valid by validateRecord; the result carries the error
\* "Price is required and must be a number."
CE_C12 ==
  (IsValidate /\ IsRef(last.arg) /\ Field(last.pre, "price").t = "number"
     /\ "n" \notin DOMAIN Field(last.pre, "price")) =>
     /\ ~Returned
     /\ \E i \in DOMAIN last.res.errors :
          last.res.errors[i] = "Price is required and must be a number."

\* C13: validateRecord rewrites the price of the candidate to its
\* two-decimal rounding whenever the price is a number other than NaN,
\* also when the result is invalid; it changes no other field, changes
\* nothing when the price is no such number, and on success returns the
\* candidate itself.
Thm_C13 ==
  (IsValidate /\ IsRef(last.arg)) =>
     /\ IF NotANumber(Field(last.pre, "price"))
        THEN DeepVal(heap, last.arg) = last.pre
        ELSE /\ DOMAIN DeepVal(heap, last.arg).f = DOMAIN last.pre.f
             /\ \A kk \in DOMAIN last.pre.f \ {"price"} :
                  DeepVal(heap, last.arg).f[kk] = last.pre.f[kk]
             /\ RoundedFrom(Field(DeepVal(heap, last.arg), "price"),
                            Field(last.pre, "price"))
     /\ Returned => last.res.record = last.arg

\* a call that returned errors has changed the price of its argument
W_C13 ==
  /\ IsValidate /\ IsRef(last.arg) /\ ~Returned
  /\ Field(DeepVal(heap, last.arg), "price") # Field(last.pre, "price")

\* C14: every call of validateRecord and of updateRecordWithValidation,
\* for any input, also a base that is null, undefined or a primitive,
\* returns isValid true with a record or isValid false with a non-empty
\* list of errors; no call throws.
CE_C14 ==
  (IsValidate \/ IsUpdate) =>
     /\ "isValid" \in DOMAIN last.res
     /\ IF last.res.isValid
        THEN DOMAIN last.res = {"isValid", "record"}
        ELSE DOMAIN last.res = {"isValid", "errors"} /\ Len(last.res.errors) > 0

\* the addresses a cell holds
RefsOf(c) ==
  IF c.k = "date" THEN {}
  ELSE IF c.k = "arr" THEN {c.e[i].a : i \in {j \in DOMAIN c.e : IsRef(c.e[j])}}
  ELSE {c.f[kk].a : kk \in {x \in DOMAIN c.f : IsRef(c.f[x])}}

\* the cells reachable from the addresses in todo
RECURSIVE Reach(_, _, _)
Reach(h, todo, seen) ==
  IF todo = {} THEN seen
  ELSE LET a == CHOOSE x \in todo : TRUE
       IN Reach(h, (todo \cup RefsOf(h[a])) \ (seen \cup {a}), seen \cup {a})

\* C15: the record a successful update returns shares no object, array
\* or Date with base, whatever the change set, also one whose values are
\* references to nested objects or arrays of base.
CE_C15 ==
  (IsUpdate /\ Returned) =>
     Reach(heap, {last.res.record.a}, {}) \cap Reach(heap, {last.base.a}, {}) = {}

====
